---------------------------- MODULE Spec2Model ----------------------------
(***************************************************************************)
(* A model of the nginx log ingestion pass of src/main.py: the line        *)
(* grammar (LOG_PATTERN), the field conversions, process_file, main, the   *)
(* persisted progress state, the store's nginx_logs table, and the log     *)
(* producer and rotation tooling that act on the files between the steps   *)
(* of a pass.                                                              *)
(*                                                                         *)
(* Text is a sequence of tokens.  A token is one character of the log      *)
(* file, except that each literal key of the grammar (Status=, ...) and    *)
(* each well-formed "%d/%b/%Y:%H:%M:%S %z" timestamp is a single token.    *)
(* Offsets count tokens the way the code's offsets count bytes.            *)
(***************************************************************************)
EXTENDS Integers, Sequences, FiniteSets, Bags

(***************************************************************************)
(* Characters                                                              *)
(***************************************************************************)
NL == "\n"
Q == "\""
SP == " "
WS == {SP, "\t"}
Digits == {"0", "1", "2", "3", "4", "5", "6", "7", "8", "9"}
Timestamps == {"ts1", "ts2", "ts3", "ts4", "ts5", "ts6"}

DigitVal(c) ==
  CASE c = "0" -> 0 [] c = "1" -> 1 [] c = "2" -> 2 [] c = "3" -> 3
    [] c = "4" -> 4 [] c = "5" -> 5 [] c = "6" -> 6 [] c = "7" -> 7
    [] c = "8" -> 8 [] c = "9" -> 9

Slice(s, i, j) == IF j < i THEN << >> ELSE SubSeq(s, i, j)

\* The index just past the longest run of characters of class C starting at i.
RECURSIVE SpanEnd(_, _, _)
SpanEnd(s, i, C) ==
  IF i > Len(s) \/ s[i] \notin C THEN i ELSE SpanEnd(s, i + 1, C)

\* The index just past the longest run of characters not in class C starting at i.
RECURSIVE SpanEndNot(_, _, _)
SpanEndNot(s, i, C) ==
  IF i > Len(s) \/ s[i] \in C THEN i ELSE SpanEndNot(s, i + 1, C)

\* The index just before the longest run of characters of class C ending at j.
RECURSIVE SpanStart(_, _, _)
SpanStart(s, j, C) ==
  IF j < 1 \/ s[j] \notin C THEN j ELSE SpanStart(s, j - 1, C)

At(s, i, c) == i >= 1 /\ i <= Len(s) /\ s[i] = c

\* str.strip(): leading and trailing whitespace removed.
Strip(s) == Slice(s, SpanEnd(s, 1, WS \cup {NL}), SpanStart(s, Len(s), WS \cup {NL}))

(***************************************************************************)
(* LOG_PATTERN                                                             *)
(*                                                                         *)
(* The pattern is matched group by group, each operator handing what it    *)
(* found to the next.  No group can give characters back to a later one    *)
(* except where noted: every class excludes the character that ends it.    *)
(***************************************************************************)
NoMatch == [ok |-> FALSE]
NumChars == Digits \cup {".", "-"}

\* The value of a pipe field that ends before the pipe at e, where j is the
\* index after the greedy \s* that follows the previous pipe: \s* gives one
\* character back when the whole field is whitespace.
PipeValue(s, j, e) == IF j < e THEN Slice(s, j, e - 1) ELSE <<s[e - 1]>>

\* \s*(?P<name>[^|]+)\s*\|  n times from i, the index after the previous
\* pipe, after the values acc of the fields before them.
RECURSIVE PipeFields(_, _, _, _)
PipeFieldEnd(s, i, e, n, acc) ==
  IF e > Len(s) \/ e = i THEN NoMatch
  ELSE PipeFields(s, e + 1, n - 1, Append(acc, PipeValue(s, SpanEnd(s, i, WS), e)))

PipeFields(s, i, n, acc) ==
  IF n = 0 THEN [ok |-> TRUE, vals |-> acc, next |-> i]
  ELSE PipeFieldEnd(s, i, SpanEndNot(s, i, {"|"}), n, acc)

\* The seven Key="value" groups that follow the request, in the pattern's
\* order: the key, the class of the value (neg: its complement), its least
\* length.
PatternKeys ==
  << [key |-> "Status=", class |-> Digits, neg |-> FALSE, min |-> 1],
     [key |-> "BodyBytesSent=", class |-> Digits \cup {"-"}, neg |-> FALSE, min |-> 1],
     [key |-> "Referer=", class |-> {Q}, neg |-> TRUE, min |-> 0],
     [key |-> "UserAgent=", class |-> {Q}, neg |-> TRUE, min |-> 0],
     [key |-> "RequestTime=", class |-> NumChars, neg |-> FALSE, min |-> 1],
     [key |-> "UpstreamResponseTime=", class |-> NumChars, neg |-> FALSE, min |-> 1],
     [key |-> "GzipRatio=", class |-> NumChars, neg |-> FALSE, min |-> 1] >>

ValueEnd(s, v, p) ==
  IF p.neg THEN SpanEndNot(s, v, p.class) ELSE SpanEnd(s, v, p.class)

\* \s*Key="(?P<name>...)"  for the groups n.. of PatternKeys from i, after the
\* values acc of the groups before them.
RECURSIVE KeyValues(_, _, _, _)
KeyValueEnd(s, k, e, n, acc) ==
  IF At(s, k, PatternKeys[n].key) /\ At(s, k + 1, Q)
     /\ e - (k + 2) >= PatternKeys[n].min /\ At(s, e, Q)
    THEN KeyValues(s, e + 1, n + 1, Append(acc, Slice(s, k + 2, e - 1)))
    ELSE NoMatch

KeyValueAt(s, k, n, acc) == KeyValueEnd(s, k, ValueEnd(s, k + 2, PatternKeys[n]), n, acc)

KeyValues(s, i, n, acc) ==
  IF n > Len(PatternKeys) THEN [ok |-> TRUE, vals |-> acc]
  ELSE KeyValueAt(s, SpanEnd(s, i, WS), n, acc)

\* "\s*Status="(\d+)"\s*BodyBytesSent="([\d-]+)" ... GzipRatio="([\d\.\-]+)"
\* read from r, the index of the quote that closes the request.
PatternTail(s, r) ==
  IF At(s, r, Q) THEN KeyValues(s, r + 1, 1, << >>) ELSE NoMatch

\* (?P<request>.*?)" : the request is lazy, it ends at the first quote at or
\* after r from which the rest of the pattern matches; 0 if there is none.
RECURSIVE RequestEnd(_, _)
RequestEnd(s, r) ==
  IF r > Len(s) THEN 0
  ELSE IF PatternTail(s, r).ok THEN r
  ELSE RequestEnd(s, r + 1)

Groups(s, tEnd, fields, open, close, tail) ==
  [ok |-> TRUE,
   time_local |-> Slice(s, 2, tEnd - 1),
   host |-> fields[1], remote_addr |-> fields[2], remote_user |-> fields[3],
   request |-> Slice(s, open + 1, close - 1),
   status |-> tail[1], body_bytes_sent |-> tail[2],
   http_referer |-> tail[3], http_user_agent |-> tail[4],
   request_time |-> tail[5], upstream_response_time |-> tail[6],
   gzip_ratio |-> tail[7]]

MatchRequest(s, tEnd, fields, open, close) ==
  IF close = 0 THEN NoMatch
  ELSE Groups(s, tEnd, fields, open, close, PatternTail(s, close).vals)

\* \s*" after the pipe that ends remote_user.
MatchQuote(s, tEnd, fields, open) ==
  IF At(s, open, Q) THEN MatchRequest(s, tEnd, fields, open, RequestEnd(s, open + 1))
  ELSE NoMatch

MatchFields(s, tEnd, pf) ==
  IF pf.ok THEN MatchQuote(s, tEnd, pf.vals, SpanEnd(s, pf.next, WS)) ELSE NoMatch

\* \]\s*\| after time_local, then host, remote_addr and remote_user.
MatchBar(s, tEnd, bar) ==
  IF At(s, bar, "|") THEN MatchFields(s, tEnd, PipeFields(s, bar + 1, 3, << >>))
  ELSE NoMatch

\* ^\[(?P<time_local>[^\]]+)\]
MatchTime(s, tEnd) ==
  IF At(s, 1, "[") /\ tEnd > 2 /\ At(s, tEnd, "]")
    THEN MatchBar(s, tEnd, SpanEnd(s, tEnd + 1, WS))
    ELSE NoMatch

\* LOG_PATTERN.match(line): the groups of the match, or NoMatch.  The pattern
\* is anchored at the start only.
LOG_PATTERN(s) == MatchTime(s, SpanEndNot(s, 2, {"]"}))

(***************************************************************************)
(* Field conversions                                                       *)
(***************************************************************************)
None == [k |-> "None"]
ValueError == [k |-> "ValueError"]
IntV(n) == [k |-> "int", v |-> n]
FloatV(n, e) == [k |-> "float", num |-> n, exp |-> e]
StrV(s) == [k |-> "str", v |-> s]
TimeV(t) == [k |-> "datetime", v |-> t]

RECURSIVE DigitsVal(_)
DigitsVal(s) ==
  IF s = << >> THEN 0
  ELSE 10 * DigitsVal(Slice(s, 1, Len(s) - 1)) + DigitVal(s[Len(s)])

\* The digits of a number text, after its sign.
Unsigned(s) == IF At(s, 1, "-") THEN Slice(s, 2, Len(s)) ELSE s

\* The text int() accepts, among texts over digits and '-'.
IsDigits(body) == body # << >> /\ \A i \in 1..Len(body) : body[i] \in Digits

IsIntText(s) == IsDigits(Unsigned(s))

\* The text float() accepts, among texts over digits, '.' and '-'.
IsDecimal(body) ==
  /\ \A i \in 1..Len(body) : body[i] \in Digits \cup {"."}
  /\ Cardinality({i \in 1..Len(body) : body[i] = "."}) <= 1
  /\ \E i \in 1..Len(body) : body[i] \in Digits

IsFloatText(s) == IsDecimal(Unsigned(s))

\* A decimal num / 10^exp without trailing zeros in its fraction.
RECURSIVE Decimal(_, _)
Decimal(n, e) ==
  IF e > 0 /\ n % 10 = 0 THEN Decimal(n \div 10, e - 1) ELSE FloatV(n, e)

SelectSeqIn(s, C) == SelectSeq(s, LAMBDA c : c \in C)

Signed(s, n) == IF At(s, 1, "-") THEN 0 - n ELSE n

int(s) ==
  IF ~IsIntText(s) THEN ValueError ELSE IntV(Signed(s, DigitsVal(Unsigned(s))))

\* The number of digits after the point of an unsigned decimal text.
FractionLen(body, dot) == IF dot > Len(body) THEN 0 ELSE Len(body) - dot

float(s) ==
  IF ~IsFloatText(s) THEN ValueError
  ELSE Decimal(Signed(s, DigitsVal(SelectSeqIn(s, Digits))),
               FractionLen(Unsigned(s), SpanEndNot(Unsigned(s), 1, {"."})))

to_nullable_float(value) ==
  IF value # << >> /\ value # <<"-">> THEN float(value) ELSE None

to_nullable_int(value) ==
  IF value # << >> /\ value # <<"-">> THEN int(value) ELSE None

\* x or d, for a converted number x: None and zero are falsy.
OrDefault(x, d) ==
  IF x = None \/ x = IntV(0) \/ x = FloatV(0, 0) THEN d ELSE x

\* datetime.strptime(text, "%d/%b/%Y:%H:%M:%S %z"), None when it raises.
strptime(s) ==
  IF Len(s) = 1 /\ s[1] \in Timestamps THEN TimeV(s[1]) ELSE None

\* A placeholder '-' in a string field becomes None.
DashToNone(s) == IF s = <<"-">> THEN None ELSE StrV(s)

\* hashlib.sha1(line).hexdigest(): the digest is modelled by the line
\* itself, so that equal ids are exactly equal lines.
sha1(line) == line

\* The row handed to the INSERT, from the converted numbers.
Row(line, m, status, body, rt, ut, gz) ==
  IF ValueError \in {status, body, rt, ut, gz} THEN ValueError
  ELSE [id |-> sha1(line),
        time_local |-> strptime(m.time_local),
        host |-> StrV(m.host),
        remote_addr |-> StrV(m.remote_addr),
        remote_user |-> DashToNone(m.remote_user),
        request |-> DashToNone(m.request),
        status |-> status,
        body_bytes_sent |-> OrDefault(body, IntV(0)),
        http_referer |-> DashToNone(m.http_referer),
        http_user_agent |-> DashToNone(m.http_user_agent),
        request_time |-> OrDefault(rt, FloatV(0, 0)),
        upstream_response_time |-> OrDefault(ut, FloatV(0, 0)),
        gzip_ratio |-> OrDefault(gz, FloatV(0, 0))]

\* The body of process_file's loop for one matching line: the row handed to
\* the INSERT, or ValueError when a conversion raises.
Normalize(line, m) ==
  Row(line, m, to_nullable_int(m.status), to_nullable_int(m.body_bytes_sent),
      to_nullable_float(m.request_time), to_nullable_float(m.upstream_response_time),
      to_nullable_float(m.gzip_ratio))

(***************************************************************************)
(* Bounds                                                                  *)
(***************************************************************************)
\* Lines the producers start and rotations of a run.
MaxLines == 2
MaxRotations == 2

(***************************************************************************)
(* Files, the state file, the store                                        *)
(***************************************************************************)
\* Every path of Paths matches LOG_GLOB.  The producer's log is ActivePath;
\* rotation moves it to the first free path in PathOrder.
Paths == {"a.log", "b.log", "c.log"}
ActivePath == "a.log"
PathOrder == [p \in Paths |-> CASE p = "a.log" -> 1 [] p = "b.log" -> 2 [] p = "c.log" -> 3]
NoFile == [exists |-> FALSE]
NoPath == "-"
NoBorn == 0 - 1
NotSaved == [stat |-> NoBorn, read |-> NoBorn]
Inodes == 1..(MaxRotations + 1)

Max(a, b) == IF a >= b THEN a ELSE b

\* The contents of STATE_FILE_PATH.
Absent == [kind |-> "absent"]
Unreadable == [kind |-> "unreadable"]
Text(t) == [kind |-> "text", text |-> t]
Json(v) == [kind |-> "json", val |-> v]

\* Python values the state may hold: a dict (a function from keys), a list.
Dict(d) == [k |-> "dict", d |-> d]
List == [k |-> "list"]
NoState == [k |-> "unset"]

VARIABLES
  fs,         \* path -> NoFile or [exists, ino, born, mtime, data]; born
              \* is the number of the rotation that created the file (no
              \* two files share it), mtime the file's rank by st_mtime
              \* among the files, 1 the oldest
  nlines,     \* lines started by the producers so far
  pending,    \* the unfinished line: the inode of its file and its rest
  rotations,  \* rotations so far
  stateFile,  \* the contents of STATE_FILE_PATH
  table,      \* committed rows of nginx_logs, a bag
  tx,         \* rows inserted on the connection and not committed, a bag
  pc,         \* where main is
  exc,        \* the exception that ended the last pass, "none" if none did
  state,      \* main's state
  latest,     \* main's latest
  cur_inode,  \* main's cur_inode
  stateFile0, \* history: the state file when the running pass began
  table0,     \* history: table when the running pass began
  quiet,      \* history: no file changed since the running pass began
  highWater,  \* history: inode -> the greatest offset persisted with it
  savedAt,    \* history: the rotations there were at the last save_state
  statFile,   \* history: the file (its born) the running pass took cur_inode from
  readFile,   \* history: the file (its born) the running pass opened as latest
  savedFile,  \* history: statFile and readFile of the pass that last saved
  logged      \* history: the lines logger.error reported in the running pass

envVars == << fs, nlines, pending, rotations >>
progVars == << stateFile, table, tx, pc, exc, state, latest, cur_inode >>
histVars == << stateFile0, table0, quiet, highWater, savedAt, statFile, readFile,
              savedFile, logged >>
vars == << fs, nlines, pending, rotations, stateFile, table, tx, pc, exc,
           state, latest, cur_inode, stateFile0, table0, quiet, highWater, savedAt,
           statFile, readFile, savedFile, logged >>

\* glob.glob(LOG_GLOB)
glob(f) == {p \in Paths : f[p].exists}

\* file_inode(path)
file_inode(f, p) == f[p].ino

\* select_latest_log(): the match with the greatest st_mtime, NoPath for
\* FileNotFoundError.
select_latest_log(f) ==
  IF glob(f) = {} THEN NoPath
  ELSE CHOOSE p \in glob(f) : \A q \in glob(f) : f[q].mtime <= f[p].mtime

\* A fresh state that does not begin at offset 0.
FreshStateOne == Dict([inode |-> None, offset |-> 1])

\* load_state()
FreshState == Dict([inode |-> None, offset |-> 0])

load_state(sf) ==
  IF sf.kind = "json" THEN sf.val ELSE FreshState

\* json.dumps(state), as save_state writes it.
dumps(st) == Json(st)

(***************************************************************************)
(* process_file                                                            *)
(***************************************************************************)
\* The lines of a text, as iterating a file yields them (without their line
\* ends): a last line that has no line end yet is a line too.
RECURSIVE SplitLines(_)
SplitLines(s) ==
  IF s = << >> THEN << >>
  ELSE LET e == SpanEndNot(s, 1, {NL})
       IN <<Slice(s, 1, e - 1)>> \o SplitLines(Slice(s, e + 1, Len(s)))

\* An INSERT without the ON CONFLICT clause.
InsertAlways(tbl, own, row) == own (+) SetToBag({row})

\* An INSERT whose conflict check sees the connection's own rows only.
InsertUnseen(tbl, own, row) ==
  IF \E r \in BagToSet(own) : r.id = row.id THEN own
  ELSE own (+) SetToBag({row})

\* INSERT ... ON CONFLICT (id) DO NOTHING on a connection that sees the
\* committed rows and its own: the connection's rows after the statement.
Insert(tbl, own, row) ==
  IF \E r \in BagToSet(tbl (+) own) : r.id = row.id THEN own
  ELSE own (+) SetToBag({row})

\* A commit that is left out: the rows stay on the connection.
CommitNothing(tbl, own) == [table |-> tbl, tx |-> own]

\* conn.commit()
Commit(tbl, own) == [table |-> tbl (+) own, tx |-> EmptyBag]

\* The loop of process_file over lines, from top to bottom of its body: the
\* connection's rows after it, and the exception that ended it.
RECURSIVE ReadLines(_, _, _)

\* cur.execute(INSERT ...) with the row, unless a conversion raised.
ReadRow(row, rest, tbl, own) ==
  IF row = ValueError THEN [exc |-> "ValueError", tx |-> own]
  ELSE ReadLines(rest, tbl, Insert(tbl, own, row))

\* A loop that ends at the first line that does not match.
ReadMatchStop(line, m, rest, tbl, own) ==
  IF ~m.ok THEN [exc |-> "none", tx |-> own]
  ELSE ReadRow(Normalize(line, m), rest, tbl, own)

\* if not m: continue
ReadMatch(line, m, rest, tbl, own) ==
  IF ~m.ok THEN ReadLines(rest, tbl, own)
  ELSE ReadRow(Normalize(line, m), rest, tbl, own)

\* if not line: continue
ReadLine(line, rest, tbl, own) ==
  IF line = << >> THEN ReadLines(rest, tbl, own)
  ELSE ReadMatch(line, LOG_PATTERN(line), rest, tbl, own)

ReadLines(lines, tbl, own) ==
  IF lines = << >> THEN [exc |-> "none", tx |-> own]
  ELSE ReadLine(Strip(Head(lines)), Tail(lines), tbl, own)

\* The lines the loop of process_file reports with logger.error, in order:
\* those that are not blank and do not match.
UnmatchedLine(line) ==
  IF line # << >> /\ ~LOG_PATTERN(line).ok THEN <<line>> ELSE << >>

RECURSIVE Unmatched(_)
Unmatched(lines) ==
  IF lines = << >> THEN << >>
  ELSE UnmatchedLine(Strip(Head(lines))) \o Unmatched(Tail(lines))

\* What process_file(p, start) reports when its loop runs to the end.
ErrorLog(f, p, start) ==
  Unmatched(SplitLines(Slice(f[p].data, start + 1, Len(f[p].data))))

\* A position one past the one f.tell() returns.
tellNext(start, n) == Max(start, n) + 1

\* The size of the file, whatever position the read began at.
tellSize(start, n) == n

\* f.tell() after the loop, for a file of size n read from start.
tell(start, n) == Max(start, n)

\* The end of process_file after its loop r, on a file of size n.
FileRead(r, start, n, tbl, dbOk) ==
  IF r.exc # "none"
    THEN [exc |-> r.exc, table |-> tbl, tx |-> r.tx, offset |-> start]
  ELSE IF ~dbOk
    THEN [exc |-> "OperationalError", table |-> tbl, tx |-> r.tx, offset |-> start]
  ELSE [exc |-> "none", table |-> Commit(tbl, r.tx).table, tx |-> Commit(tbl, r.tx).tx,
        offset |-> tell(start, n)]

\* process_file(path, start_offset, conn) with the store answering (dbOk) or
\* failing: the exception raised, the table and the connection's rows after
\* it, the offset returned.
process_file(f, p, start, tbl, own, dbOk) ==
  IF ~f[p].exists
    THEN [exc |-> "FileNotFoundError", table |-> tbl, tx |-> own, offset |-> start]
  ELSE FileRead(ReadLines(SplitLines(Slice(f[p].data, start + 1, Len(f[p].data))), tbl, own),
                start, Len(f[p].data), tbl, dbOk)

(***************************************************************************)
(* main                                                                    *)
(***************************************************************************)
Truthy(v) == v # None /\ v # IntV(0)

\* d[key] = val on a dict.
SetItem(d, key, val) ==
  [x \in DOMAIN d \cup {key} |-> IF x = key THEN val ELSE d[x]]

\* main, lines 143-148: load_state, get_db_conn, ensure_table_exists,
\* select_latest_log, file_inode.
Selected(f, sf, p) ==
  IF p = NoPath THEN [exc |-> "FileNotFoundError"]
  ELSE [exc |-> "none", state |-> load_state(sf), latest |-> p,
        cur_inode |-> file_inode(f, p)]

BeginStep(f, sf, dbOk) ==
  IF ~dbOk THEN [exc |-> "OperationalError"] ELSE Selected(f, sf, select_latest_log(f))

\* An exception leaves main with the state, the table and the connection's
\* rows as they are.
Raise(e, st, tbl, own) == [exc |-> e, state |-> st, table |-> tbl, tx |-> own]

\* state["inode"] = cur_inode; state["offset"] = 0
ResetTo(st, cur) == Dict(SetItem(SetItem(st.d, "inode", IntV(cur)), "offset", 0))

\* The rotation block without its line 159: the offset process_file returned
\* for the old file stays in the state.
DrainedKept(r, st, cur) ==
  IF r.exc # "none" THEN Raise(r.exc, st, r.table, r.tx)
  ELSE [exc |-> "none",
        state |-> Dict(SetItem(SetItem(st.d, "offset", r.offset), "inode", IntV(cur))),
        table |-> r.table, tx |-> r.tx]

\* main, lines 156-159 after process_file returned r for the old file.
Drained(r, st, cur) ==
  IF r.exc # "none" THEN Raise(r.exc, st, r.table, r.tx)
  ELSE [exc |-> "none", state |-> ResetTo(st, cur), table |-> r.table, tx |-> r.tx]

\* The matches of the glob that have the state's inode.
Recorded(f, st) == {p \in glob(f) : IntV(file_inode(f, p)) = st.d.inode}

\* The file the rotation block of main reads, NoPath if it reads none.
DrainPath(f, st, cur) ==
  IF Truthy(st.d.inode) /\ st.d.inode # IntV(cur) /\ Recorded(f, st) # {}
    THEN CHOOSE p \in Recorded(f, st) : TRUE
    ELSE NoPath

\* A rotation block that fails when no match of the glob has the state's
\* inode.
DrainOrFail(f, st, cur, olds, tbl, own, dbOk) ==
  IF olds = {} THEN Raise("FileNotFoundError", st, tbl, own)
  ELSE IF "offset" \notin DOMAIN st.d THEN Raise("KeyError", st, tbl, own)
  ELSE Drained(process_file(f, CHOOSE p \in olds : TRUE, st.d.offset, tbl, own, dbOk),
               st, cur)

\* main, lines 153-159: the first match of the glob with the state's inode,
\* among the matches olds that have it, is read from the state's offset.
Drain(f, st, cur, olds, tbl, own, dbOk) ==
  IF olds = {} THEN [exc |-> "none", state |-> ResetTo(st, cur), table |-> tbl, tx |-> own]
  ELSE IF "offset" \notin DOMAIN st.d THEN Raise("KeyError", st, tbl, own)
  ELSE Drained(process_file(f, CHOOSE p \in olds : TRUE, st.d.offset, tbl, own, dbOk),
               st, cur)

\* main, lines 151-162: the rotation block and the first-run default.
RotationStep(f, st, cur, tbl, own, dbOk) ==
  IF st.k # "dict" THEN Raise("TypeError", st, tbl, own)
  ELSE IF "inode" \notin DOMAIN st.d THEN Raise("KeyError", st, tbl, own)
  ELSE IF Truthy(st.d.inode) /\ st.d.inode # IntV(cur)
    THEN Drain(f, st, cur, {p \in glob(f) : IntV(file_inode(f, p)) = st.d.inode},
               tbl, own, dbOk)
  ELSE IF st.d.inode = None
    THEN [exc |-> "none", state |-> Dict(SetItem(st.d, "inode", IntV(cur))),
          table |-> tbl, tx |-> own]
  ELSE [exc |-> "none", state |-> st, table |-> tbl, tx |-> own]

\* main, line 164 after process_file returned r for the active file.
Tailed(r, st) ==
  IF r.exc # "none" THEN Raise(r.exc, st, r.table, r.tx)
  ELSE [exc |-> "none", state |-> Dict(SetItem(st.d, "offset", r.offset)),
        table |-> r.table, tx |-> r.tx]

\* main, line 164: the active file is read from the state's offset.
TailStep(f, st, p, tbl, own, dbOk) ==
  IF "offset" \notin DOMAIN st.d THEN Raise("KeyError", st, tbl, own)
  ELSE Tailed(process_file(f, p, st.d.offset, tbl, own, dbOk), st)

\* A whole pass on files that do not change while it runs, the store
\* answering: how it ends, and the state file and the table after it.
AfterTail(sf, t) ==
  IF t.exc # "none" THEN [exc |-> t.exc, stateFile |-> sf, table |-> t.table]
  ELSE [exc |-> "none", stateFile |-> dumps(t.state), table |-> t.table]

AfterRotation(f, sf, b, r) ==
  IF r.exc # "none" THEN [exc |-> r.exc, stateFile |-> sf, table |-> r.table]
  ELSE AfterTail(sf, TailStep(f, r.state, b.latest, r.table, r.tx, TRUE))

AfterBegin(f, sf, tbl, b) ==
  IF b.exc # "none" THEN [exc |-> b.exc, stateFile |-> sf, table |-> tbl]
  ELSE AfterRotation(f, sf, b, RotationStep(f, b.state, b.cur_inode, tbl, EmptyBag, TRUE))

MainResult(f, sf, tbl) == AfterBegin(f, sf, tbl, BeginStep(f, sf, TRUE))

(***************************************************************************)
(* The lines the producers write                                           *)
(***************************************************************************)
TS == <<"ts1", "ts2", "ts3", "ts4", "ts5", "ts6">>

\* A line in the documented layout with the given time_local and
\* BodyBytesSent texts.
LogLine(time, body) ==
  <<"[">> \o time \o
  <<"]", SP, "|", SP, "h", SP, "|", SP, "a", SP, "|", SP, "-", SP, "|", SP,
    Q, "r", Q, SP, "Status=", Q, "2", "0", "0", Q, SP, "BodyBytesSent=", Q>>
  \o body \o
  <<Q, SP, "Referer=", Q, "-", Q, SP, "UserAgent=", Q, "u", Q, SP,
    "RequestTime=", Q, "0", ".", "1", Q, SP, "UpstreamResponseTime=", Q, "-", Q, SP,
    "GzipRatio=", Q, "-", Q>>

\* The n-th line of a run: well formed, with a time strptime rejects, with a
\* BodyBytesSent that is no number, outside the grammar, or blank.
Kinds == {"good", "badtime", "badnum", "junk", "blank"}

Line(kind, n) ==
  CASE kind = "good" -> LogLine(<<TS[n]>>, <<"1">>)
    [] kind = "badtime" -> LogLine(<<"x", TS[n]>>, <<"1">>)
    [] kind = "badnum" -> LogLine(<<TS[n]>>, <<"1", "-", "2">>)
    [] kind = "junk" -> <<"[", TS[n], "]", SP, "x">>
    [] kind = "blank" -> <<SP>>

\* A line in the documented layout, fields separated by ' | ', with the
\* given time_local and the texts f of its other variable fields.
FieldLine(time, f) ==
  <<"[", time, "]", SP, "|", SP, "h", SP, "|", SP, "a", SP, "|", SP>> \o f.user \o
  <<SP, "|", SP, Q>> \o f.request \o <<Q, SP, "Status=", Q>> \o f.status \o
  <<Q, SP, "BodyBytesSent=", Q>> \o f.body \o <<Q, SP, "Referer=", Q>> \o f.referer \o
  <<Q, SP, "UserAgent=", Q>> \o f.agent \o <<Q, SP, "RequestTime=", Q>> \o f.rt \o
  <<Q, SP, "UpstreamResponseTime=", Q>> \o f.ut \o <<Q, SP, "GzipRatio=", Q>> \o f.gz \o
  <<Q>>

\* Field texts: the placeholder and a number, for each numeric field; the
\* placeholder, the empty value and a text, for the string fields.
Dash == <<"-">>
StatusTexts == {Dash, <<"4", "0", "4">>}
BodyTexts == {Dash, <<"1", "2">>}
FloatTexts == {Dash, <<"0", ".", "2", "5">>}
Placeholders == {Dash, << >>}

\* Lines whose numeric fields hold a number or the placeholder.
NumberFields ==
  [user : {<<"u">>}, request : {<<"r">>}, referer : {<<"f">>}, agent : {<<"g">>},
   status : StatusTexts, body : BodyTexts, rt : FloatTexts, ut : FloatTexts,
   gz : FloatTexts]

\* Lines whose string fields hold a text or a placeholder.
StringFields ==
  [user : Placeholders \cup {<<"u">>}, request : Placeholders \cup {<<"r">>},
   referer : Placeholders, agent : Placeholders,
   status : {<<"2", "0", "0">>}, body : {<<"1", "2">>}, rt : {<<"0", ".", "2", "5">>},
   ut : {Dash}, gz : {Dash}]

\* Where a write of a good line may stop short: in the middle of the line.
CutPoint == 20
NoPending == [ino |-> 0, rest |-> << >>]

(***************************************************************************)
(* The initial state: one empty log file, no state file, an empty table.   *)
(***************************************************************************)
Init ==
  /\ fs = [p \in Paths |->
             IF p = ActivePath
               THEN [exists |-> TRUE, ino |-> 1, born |-> 0, mtime |-> 1, data |-> << >>]
             ELSE NoFile]
  /\ nlines = 0
  /\ pending = NoPending
  /\ rotations = 0
  /\ stateFile = Absent
  /\ table = EmptyBag
  /\ tx = EmptyBag
  /\ pc = "idle"
  /\ exc = "none"
  /\ state = NoState
  /\ latest = NoPath
  /\ cur_inode = 0
  /\ stateFile0 = Absent
  /\ table0 = EmptyBag
  /\ quiet = FALSE
  /\ highWater = [i \in Inodes |-> 0]
  /\ savedAt = 0
  /\ statFile = NoBorn
  /\ readFile = NoBorn
  /\ savedFile = NotSaved
  /\ logged = << >>

Ended == {"idle", "done", "aborted"}

\* What the rotation block reports while it reads the file p.
DrainLog(f, st, p) == IF p = NoPath THEN << >> ELSE ErrorLog(f, p, st.d.offset)

\* The history variables after a step: what the state file and the table
\* were when the running pass began, whether the files are as they were
\* then, the greatest offset persisted with each inode, the rotations there
\* were when the state file was last saved, the files the running pass and
\* the last saving pass took the inode from and read, and what the running
\* pass reported.  savedFile is kept while the state file holds what that pass
\* saved.
History ==
  /\ stateFile0' = IF pc' \in Ended THEN Absent
                   ELSE IF pc \in Ended THEN stateFile ELSE stateFile0
  /\ table0' = IF pc' \in Ended THEN EmptyBag
               ELSE IF pc \in Ended THEN table ELSE table0
  /\ quiet' = IF pc' \in Ended THEN FALSE
              ELSE IF pc \in Ended THEN TRUE
              ELSE quiet /\ fs' = fs
  /\ highWater' = IF pc = "saving" /\ pc' = "done"
                    THEN [highWater EXCEPT ![stateFile'.val.d.inode.v] =
                            Max(@, stateFile'.val.d.offset)]
                  ELSE highWater
  /\ savedAt' = IF pc = "saving" /\ pc' = "done" THEN rotations ELSE savedAt
  /\ statFile' = IF pc' \in Ended THEN NoBorn
                  ELSE IF pc \in Ended THEN fs[latest'].born ELSE statFile
  /\ readFile' = IF pc' \in Ended THEN NoBorn
                  ELSE IF pc = "rotated" /\ pc' = "tailed" THEN fs[latest].born
                  ELSE readFile
  /\ savedFile' = IF pc = "saving" /\ pc' = "done"
                    THEN [stat |-> statFile, read |-> readFile]
                  ELSE IF stateFile'.kind # "json" THEN NotSaved
                  ELSE savedFile
  /\ logged' = IF pc' \in Ended THEN << >>
                ELSE IF pc = "selected" /\ pc' = "rotated"
                  THEN DrainLog(fs, state, DrainPath(fs, state, cur_inode))
                ELSE IF pc = "rotated" /\ pc' = "tailed"
                  THEN logged \o ErrorLog(fs, latest, state.d.offset)
                ELSE logged

(***************************************************************************)
(* The producers and the rotation tooling                                  *)
(***************************************************************************)
\* The files f after p was written or created just now: p is the newest, the
\* others keep their order.
Touch(f, p) ==
  [x \in Paths |->
     IF ~f[x].exists THEN f[x]
     ELSE IF x = p THEN [f[x] EXCEPT !.mtime = Cardinality(glob(f))]
     ELSE [f[x] EXCEPT !.mtime =
             Cardinality({y \in glob(f) \ {p} : f[y].mtime <= f[x].mtime})]]

Write(p, text) == fs' = Touch([fs EXCEPT ![p].data = @ \o text], p)

\* A producer appends one whole line to a file it holds open.
AppendLine(p, kind) ==
  /\ fs[p].exists /\ fs[p].ino # pending.ino
  /\ nlines < MaxLines
  /\ nlines' = nlines + 1
  /\ Write(p, Line(kind, nlines + 1) \o <<NL>>)
  /\ UNCHANGED << pending, rotations >>
  /\ UNCHANGED progVars
  /\ History

\* A producer appends one whole line with the field texts f.
AppendFields(p, f) ==
  /\ fs[p].exists /\ fs[p].ino # pending.ino
  /\ nlines < MaxLines
  /\ nlines' = nlines + 1
  /\ Write(p, FieldLine(TS[nlines + 1], f) \o <<NL>>)
  /\ UNCHANGED << pending, rotations >>
  /\ UNCHANGED progVars
  /\ History

\* A write of a line stops short: the file ends in the middle of the line.
AppendHead(p) ==
  /\ fs[p].exists /\ pending = NoPending
  /\ nlines < MaxLines
  /\ nlines' = nlines + 1
  /\ Write(p, Slice(Line("good", nlines + 1), 1, CutPoint))
  /\ pending' = [ino |-> fs[p].ino,
                 rest |-> Slice(Line("good", nlines + 1), CutPoint + 1,
                                Len(Line("good", nlines + 1))) \o <<NL>>]
  /\ UNCHANGED << rotations >>
  /\ UNCHANGED progVars
  /\ History

\* The rest of the unfinished line arrives.
AppendRest(p) ==
  /\ fs[p].exists /\ fs[p].ino = pending.ino
  /\ Write(p, pending.rest)
  /\ pending' = NoPending
  /\ UNCHANGED << nlines, rotations >>
  /\ UNCHANGED progVars
  /\ History

\* The least inode no file of f has.
FreeInode(f) ==
  CHOOSE i \in Inodes \ {f[x].ino : x \in glob(f)} :
    \A j \in Inodes \ {f[x].ino : x \in glob(f)} : i <= j

\* Rotation: the active log is renamed to the first free path q and a new,
\* empty file is created in its place.
Rotate(q) ==
  /\ fs[ActivePath].exists /\ ~fs[q].exists
  /\ \A x \in Paths : ~fs[x].exists => PathOrder[q] <= PathOrder[x]
  /\ rotations < MaxRotations
  /\ rotations' = rotations + 1
  /\ fs' = Touch([fs EXCEPT ![q] = fs[ActivePath],
                            ![ActivePath] = [exists |-> TRUE, ino |-> FreeInode(fs),
                                             born |-> rotations + 1,
                                             mtime |-> 0, data |-> << >>]],
                 ActivePath)
  /\ UNCHANGED << nlines, pending >>
  /\ UNCHANGED progVars
  /\ History

\* Retention: a rotated-out file is removed; its inode is free again.
Delete(p) ==
  /\ p # ActivePath /\ fs[p].exists
  /\ fs[p].ino # pending.ino
  /\ fs' = Touch([fs EXCEPT ![p] = NoFile], p)
  /\ UNCHANGED << nlines, pending, rotations >>
  /\ UNCHANGED progVars
  /\ History

\* The log is truncated in place (copytruncate): the file keeps its inode
\* and is empty.
Truncate(p) ==
  /\ fs[p].exists /\ fs[p].data # << >>
  /\ fs[p].ino # pending.ino
  /\ fs' = Touch([fs EXCEPT ![p].data = << >>], p)
  /\ UNCHANGED << nlines, pending, rotations >>
  /\ UNCHANGED progVars
  /\ History

\* The state file is damaged between two passes: it holds c.
Damage(c) ==
  /\ pc \in Ended
  /\ stateFile # c
  /\ stateFile' = c
  /\ UNCHANGED << table, tx, pc, exc, state, latest, cur_inode >>
  /\ UNCHANGED envVars
  /\ History

(***************************************************************************)
(* One pass of main                                                        *)
(***************************************************************************)
\* The process ends with exception e: the connection's rows are rolled back.
Abort(e) ==
  /\ pc' = "aborted"
  /\ exc' = e
  /\ tx' = EmptyBag
  /\ state' = NoState
  /\ latest' = NoPath
  /\ cur_inode' = 0

\* main reaches line 149 with b, or ends with b's exception.
Began(b) ==
  IF b.exc # "none" THEN Abort(b.exc)
  ELSE /\ pc' = "selected"
       /\ exc' = "none"
       /\ state' = b.state
       /\ latest' = b.latest
       /\ cur_inode' = b.cur_inode
       /\ tx' = EmptyBag

Begin(dbOk) ==
  /\ pc \in Ended
  /\ Began(BeginStep(fs, stateFile, dbOk))
  /\ UNCHANGED << stateFile, table >>
  /\ UNCHANGED envVars
  /\ History

\* main goes on to next with the result r of a step, or ends with r's
\* exception; what the step committed stays.
Stepped(r, next) ==
  /\ table' = r.table
  /\ IF r.exc # "none" THEN Abort(r.exc)
     ELSE /\ pc' = next
          /\ state' = r.state
          /\ tx' = r.tx
          /\ UNCHANGED << exc, latest, cur_inode >>

Rotation(dbOk) ==
  /\ pc = "selected"
  /\ Stepped(RotationStep(fs, state, cur_inode, table, tx, dbOk), "rotated")
  /\ UNCHANGED stateFile
  /\ UNCHANGED envVars
  /\ History

TailActive(dbOk) ==
  /\ pc = "rotated"
  /\ Stepped(TailStep(fs, state, latest, table, tx, dbOk), "tailed")
  /\ UNCHANGED stateFile
  /\ UNCHANGED envVars
  /\ History

\* save_state: Path.write_text opens the file for writing, which truncates
\* it, ...
SaveOpen ==
  /\ pc = "tailed"
  /\ pc' = "saving"
  /\ stateFile' = Text(<< >>)
  /\ UNCHANGED << table, tx, exc, state, latest, cur_inode >>
  /\ UNCHANGED envVars
  /\ History

\* ... and then writes the text and closes it; main logs and returns.
SaveWrite ==
  /\ pc = "saving"
  /\ pc' = "done"
  /\ stateFile' = dumps(state)
  /\ tx' = EmptyBag
  /\ state' = NoState
  /\ latest' = NoPath
  /\ cur_inode' = 0
  /\ UNCHANGED << table, exc >>
  /\ UNCHANGED envVars
  /\ History

\* The process is killed in the middle of a pass.
Crash ==
  /\ pc \notin Ended
  /\ Abort("killed")
  /\ UNCHANGED << stateFile, table >>
  /\ UNCHANGED envVars
  /\ History

(***************************************************************************)
(* Passes among producers that write whole well-formed lines to any of the *)
(* files, and rotations; the store may fail and the process may be killed. *)
(***************************************************************************)
Next ==
  \/ \E p \in Paths : AppendLine(p, "good")
  \/ \E q \in Paths : Rotate(q)
  \/ \E dbOk \in BOOLEAN : Begin(dbOk)
  \/ \E dbOk \in BOOLEAN : Rotation(dbOk)
  \/ \E dbOk \in BOOLEAN : TailActive(dbOk)
  \/ SaveOpen
  \/ SaveWrite
  \/ Crash

Spec == Init /\ [][Next]_vars

(***************************************************************************)
(* Passes that all succeed (the store answers, the process is not killed)  *)
(* among rotations and producers that write lines whole or in two parts.   *)
(***************************************************************************)
NextPasses ==
  \/ \E p \in Paths : AppendLine(p, "good")
  \/ \E p \in Paths : AppendHead(p)
  \/ \E p \in Paths : AppendRest(p)
  \/ \E q \in Paths : Rotate(q)
  \/ Begin(TRUE)
  \/ Rotation(TRUE)
  \/ TailActive(TRUE)
  \/ SaveOpen
  \/ SaveWrite

SpecPasses == Init /\ [][NextPasses]_vars

(***************************************************************************)
(* Passes on one file that receives whole lines of every kind, the store   *)
(* answering.                                                              *)
(***************************************************************************)
NextLines ==
  \/ \E kind \in Kinds : AppendLine(ActivePath, kind)
  \/ Begin(TRUE)
  \/ Rotation(TRUE)
  \/ TailActive(TRUE)
  \/ SaveOpen
  \/ SaveWrite

SpecLines == Init /\ [][NextLines]_vars

(***************************************************************************)
(* Passes on one file with a state file that may be damaged between them,  *)
(* the store answering.                                                    *)
(***************************************************************************)
\* What a damaged state file may hold: nothing readable, text that is no
\* JSON, JSON that is no object, an object without one or both fields.
Damaged ==
  { Unreadable, Text(<<"x">>), Json(List), Json(None), Json(Dict(<< >>)),
    Json(Dict([inode |-> IntV(1)])), Json(Dict([offset |-> 0])) }

NextState ==
  \/ AppendLine(ActivePath, "good")
  \/ \E c \in Damaged : Damage(c)
  \/ Begin(TRUE)
  \/ Rotation(TRUE)
  \/ TailActive(TRUE)
  \/ SaveOpen
  \/ SaveWrite

SpecState == Init /\ [][NextState]_vars

(***************************************************************************)
(* Passes on one file that receives whole lines in the documented layout   *)
(* with numbers or placeholders in the numeric fields, the store           *)
(* answering.                                                              *)
(***************************************************************************)
NextNumbers ==
  \/ \E f \in NumberFields : AppendFields(ActivePath, f)
  \/ Begin(TRUE)
  \/ Rotation(TRUE)
  \/ TailActive(TRUE)
  \/ SaveOpen
  \/ SaveWrite

SpecNumbers == Init /\ [][NextNumbers]_vars

(***************************************************************************)
(* The same with texts or placeholders in the string fields.               *)
(***************************************************************************)
NextStrings ==
  \/ \E f \in StringFields : AppendFields(ActivePath, f)
  \/ Begin(TRUE)
  \/ Rotation(TRUE)
  \/ TailActive(TRUE)
  \/ SaveOpen
  \/ SaveWrite

SpecStrings == Init /\ [][NextStrings]_vars

(***************************************************************************)
(* Passes on one file that receives whole lines and may be truncated in    *)
(* place, the store answering.                                             *)
(***************************************************************************)
NextTruncate ==
  \/ \E kind \in {"good", "junk"} : AppendLine(ActivePath, kind)
  \/ Truncate(ActivePath)
  \/ Begin(TRUE)
  \/ Rotation(TRUE)
  \/ TailActive(TRUE)
  \/ SaveOpen
  \/ SaveWrite

SpecTruncate == Init /\ [][NextTruncate]_vars

(***************************************************************************)
(* Passes that all succeed among producers that write whole lines to the   *)
(* active log, rotations, and the removal of rotated-out files.            *)
(***************************************************************************)
NextRetention ==
  \/ AppendLine(ActivePath, "good")
  \/ \E q \in Paths : Rotate(q)
  \/ \E p \in Paths : Delete(p)
  \/ Begin(TRUE)
  \/ Rotation(TRUE)
  \/ TailActive(TRUE)
  \/ SaveOpen
  \/ SaveWrite

SpecRetention == Init /\ [][NextRetention]_vars

(***************************************************************************)
(* Properties                                                              *)
(***************************************************************************)
\* The lines of a text as process_file sees them, stripped.
Lines(text) == {Strip(SplitLines(text)[i]) : i \in DOMAIN SplitLines(text)}

\* The lines of a text that match the grammar.
Matching(text) == {l \in Lines(text) : l # << >> /\ LOG_PATTERN(l).ok}

\* The ids of the rows of a table.
Stored(tbl) == {r.id : r \in BagToSet(tbl)}

\* The state file holds an {inode, offset} record.
Usable(sf) ==
  sf.kind = "json" /\ sf.val.k = "dict" /\ {"inode", "offset"} \subseteq DOMAIN sf.val.d

\* A pass has read its files, which are as they were when it began, and is
\* about to save; the store does not change from here to the end of the pass.
ReadAll == pc = "tailed" /\ quiet

\* C1: single rotation loses nothing.  The state file records file A (its
\* inode, an offset within it), A was rotated once after that, to b.log, and
\* the new active file B is the latest; when the next pass has read its
\* files, every matching line of A and of B has a row in the table.
C1_SingleRotation ==
  ( /\ ReadAll
    /\ savedAt = 0 /\ rotations = 1
    /\ latest = ActivePath
    /\ Usable(stateFile)
    /\ stateFile.val.d.inode = IntV(fs["b.log"].ino)
    /\ stateFile.val.d.offset <= Len(fs["b.log"].data) )
  => Matching(fs["b.log"].data) \cup Matching(fs[ActivePath].data) \subseteq Stored(table)

\* C2: idempotent writes.  No two rows of the table, committed or not, have
\* the same id, and no step changes or removes a row the table holds.
UniqueIds ==
  \A r \in BagToSet(table (+) tx) :
    /\ CopiesIn(r, table (+) tx) = 1
    /\ \A q \in BagToSet(table (+) tx) : q.id = r.id => q = r

RowsKept == \A r \in BagToSet(table) : CopiesIn(r, table') = CopiesIn(r, table)

C2_IdempotentWrites == []UniqueIds /\ [][RowsKept]_vars

\* A pass began with rows in the table, read matching lines of the active
\* file, and left the table as it was: every insert met its row.
C2_Witness ==
  /\ ReadAll
  /\ table0 # EmptyBag
  /\ table = table0
  /\ Usable(stateFile) => stateFile.val.d.inode = IntV(fs[latest].ino)
  /\ Matching(Slice(fs[latest].data, load_state(stateFile).d.offset + 1,
                    Len(fs[latest].data))) # {}

\* C3: commit before checkpoint.  The state file changes only in save_state,
\* which begins with no uncommitted row on the connection; a pass that ends
\* because the store failed leaves the state file as it was when the pass
\* began.
C3_Step ==
  /\ stateFile' # stateFile =>
       /\ pc \in {"tailed", "saving"} /\ pc' \in {"saving", "done"}
       /\ tx = EmptyBag
  /\ (pc' = "aborted" /\ exc' = "OperationalError") =>
       stateFile' = IF pc \in Ended THEN stateFile ELSE stateFile0

C3_CommitBeforeCheckpoint == [][C3_Step]_vars

\* The store failed in a pass that had a saved state and lines to read.
C3_Witness ==
  /\ pc = "aborted" /\ exc = "OperationalError"
  /\ Usable(stateFile)
  /\ \E p \in glob(fs) : Matching(fs[p].data) \ Stored(table) # {}

\* C4: crash recovery.  Wherever a pass is between its start and save_state,
\* the files being as they were when it began, the state file is what it was
\* then, and a complete pass from here ends with the state file and the
\* table that a complete pass from the pass's beginning ends with.
C4_CrashRecovery ==
  (pc \in {"selected", "rotated", "tailed"} /\ quiet) =>
    /\ stateFile = stateFile0
    /\ MainResult(fs, stateFile, table) = MainResult(fs, stateFile0, table0)

\* A pass has drained a rotated-out file, which committed rows, and has not
\* read the active file yet.
C4_Witness ==
  /\ pc = "rotated" /\ quiet
  /\ table # table0
  /\ Matching(fs[latest].data) \ Stored(table) # {}

\* C5: no lost lines on a growing file.  The one file was never rotated and
\* every line written to it is complete; when a pass has read it, every
\* matching line of the file has a row in the table.
C5_NoLostLines ==
  (ReadAll /\ rotations = 0 /\ pending = NoPending)
    => Matching(fs[ActivePath].data) \subseteq Stored(table)

\* C6: atomic checkpoint.  The state file is absent or holds a complete
\* state, never an empty or partial text.
C6_AtomicCheckpoint == stateFile.kind \in {"absent", "json"}

\* C7: only two failure kinds abort a pass.  With a file to read and the
\* store answering, a pass ends by no other exception than a failure to find
\* a file or a failure of the store, whatever the lines hold.
C7_OnlyTwoFailureKinds ==
  pc = "aborted" => exc \in {"FileNotFoundError", "OperationalError"}

\* C8: corrupt state is a fresh start.  With a state file that holds no
\* {inode, offset} record, a pass ends as it does with no state file: without
\* an exception, with the same table and the same saved state.
C8_CorruptStateIsFreshStart ==
  (pc \in Ended /\ stateFile # Absent /\ ~Usable(stateFile)) =>
    MainResult(fs, stateFile, table) = MainResult(fs, Absent, table)

\* C9: offset monotonicity per identity.  The offset the state file holds
\* with an inode, and the offset a pass is about to save with an inode, is at
\* least every offset saved with that inode before.
C9_OffsetMonotone ==
  /\ Usable(stateFile) =>
       stateFile.val.d.offset >= highWater[stateFile.val.d.inode.v]
  /\ pc \in {"tailed", "saving"} =>
       state.d.offset >= highWater[state.d.inode.v]

\* C10: rotation events in general lose nothing.  Every line is written
\* whole and every rotated-out file still matches the glob; when a pass has
\* read its files, every matching line of every file has a row in the table.
C10_RotationsLoseNothing ==
  ReadAll => \A p \in glob(fs) : Matching(fs[p].data) \subseteq Stored(table)

\* C11: file identity distinguishes distinct files.  The file a pass took
\* cur_inode from is not the file the saved state was taken from; when the
\* rotation block is done, the state holds the new file's inode and offset
\* 0, which is where the pass reads the new file from.
C11_FileIdentity ==
  ( /\ pc = "rotated"
    /\ Usable(stateFile0) /\ stateFile0.val.d.inode # None
    /\ statFile # savedFile.stat )
  => state.d.inode = IntV(cur_inode) /\ state.d.offset = 0

\* The rows of a table with the id of a line.
RowsOf(tbl, line) == {r \in BagToSet(tbl) : r.id = sha1(line)}

\* C12: numeric null/default policy.  When a pass has read the file, every
\* line of it whose numeric fields hold a number or the placeholder '-' has
\* exactly one row, with status null for the placeholder, 0 for the
\* placeholder in BodyBytesSent, 0.0 for the placeholder in RequestTime,
\* UpstreamResponseTime and GzipRatio, and the number otherwise.
C12_Row(r, f) ==
  /\ r.status = IF f.status = Dash THEN None ELSE IntV(404)
  /\ r.body_bytes_sent = IF f.body = Dash THEN IntV(0) ELSE IntV(12)
  /\ r.request_time = IF f.rt = Dash THEN FloatV(0, 0) ELSE FloatV(25, 2)
  /\ r.upstream_response_time = IF f.ut = Dash THEN FloatV(0, 0) ELSE FloatV(25, 2)
  /\ r.gzip_ratio = IF f.gz = Dash THEN FloatV(0, 0) ELSE FloatV(25, 2)

C12_NumericPolicy ==
  ReadAll =>
    \A n \in 1..MaxLines, f \in NumberFields :
      FieldLine(TS[n], f) \in Lines(fs[ActivePath].data) =>
        /\ Cardinality(RowsOf(table, FieldLine(TS[n], f))) = 1
        /\ \A r \in RowsOf(table, FieldLine(TS[n], f)) :
             CopiesIn(r, table) = 1 /\ C12_Row(r, f)

\* C13: string placeholder policy.  When a pass has read the file, every line
\* of it in the documented layout has a row in which remote_user, request,
\* http_referer and http_user_agent are null wherever the line holds the
\* placeholder '-' or the empty value for them.
C13_Row(r, f) ==
  /\ f.user \in Placeholders => r.remote_user = None
  /\ f.request \in Placeholders => r.request = None
  /\ f.referer \in Placeholders => r.http_referer = None
  /\ f.agent \in Placeholders => r.http_user_agent = None

C13_StringPolicy ==
  ReadAll =>
    \A n \in 1..MaxLines, f \in StringFields :
      FieldLine(TS[n], f) \in Lines(fs[ActivePath].data) =>
        /\ RowsOf(table, FieldLine(TS[n], f)) # {}
        /\ \A r \in RowsOf(table, FieldLine(TS[n], f)) : C13_Row(r, f)

\* The running pass loaded a state whose inode is set and is not the inode it
\* took from the active file: it detects a rotation.
RotationDetected ==
  /\ Usable(stateFile0)
  /\ Truthy(stateFile0.val.d.inode)
  /\ stateFile0.val.d.inode # IntV(cur_inode)

\* The text of file p from offset start to its end.
Unread(p, start) == Slice(fs[p].data, start + 1, Len(fs[p].data))

\* C14: rotation pass ordering and result.  In a pass that detects a rotation
\* and finds a match of the glob with the recorded inode: the rotation block
\* stores the matching lines of that file from the recorded offset to its end
\* and nothing else, and leaves the state with the active file's inode and
\* offset 0, whatever process_file returned; the active file is read after
\* that, from offset 0 to its end, and the state then holds the active file's
\* inode and the end of the active file; that state is what the pass saves.
C14_Step ==
  /\ (pc = "selected" /\ pc' = "rotated" /\ RotationDetected) =>
       \A p \in glob(fs) :
         IntV(fs[p].ino) = state.d.inode =>
           /\ Matching(Unread(p, state.d.offset)) \subseteq Stored(table')
           /\ Stored(table') \ Stored(table) \subseteq Matching(Unread(p, state.d.offset))
           /\ state'.d = [inode |-> IntV(cur_inode), offset |-> 0]
  /\ (pc = "rotated" /\ pc' = "tailed" /\ RotationDetected) =>
       /\ state.d.offset = 0
       /\ Matching(fs[latest].data) \subseteq Stored(table')
       /\ state'.d = [inode |-> IntV(cur_inode), offset |-> Len(fs[latest].data)]
  /\ (pc = "saving" /\ pc' = "done" /\ RotationDetected /\ quiet) =>
       stateFile' = Json(Dict([inode |-> IntV(fs[latest].ino),
                               offset |-> Len(fs[latest].data)]))

C14_RotationPass == [][C14_Step]_vars

\* A pass that detected a rotation has stored lines it read from the
\* recorded offset of the old file and lines it read from the active file.
C14_Witness ==
  /\ ReadAll /\ RotationDetected
  /\ \E p \in glob(fs) :
       /\ IntV(fs[p].ino) = stateFile0.val.d.inode
       /\ Matching(Unread(p, stateFile0.val.d.offset)) # {}
       /\ Matching(Unread(p, stateFile0.val.d.offset)) \subseteq Stored(table) \ Stored(table0)
  /\ Matching(fs[latest].data) # {}
  /\ Matching(fs[latest].data) \subseteq Stored(table) \ Stored(table0)

\* The running pass detects a rotation and no match of the glob has the
\* recorded inode.
TargetMissing ==
  RotationDetected /\ \A p \in glob(fs) : IntV(fs[p].ino) # stateFile0.val.d.inode

\* C15: a missing rotation target is not fatal.  In a pass that detects a
\* rotation while no match of the glob has the recorded inode, on files that
\* do not change: the rotation block does not end the pass, stores nothing
\* and leaves the state with the active file's inode and offset 0; the pass
\* then stores the matching lines of the active file and no others, does not
\* end before save_state, and saves the active file's inode with the end of
\* the active file.
C15_Rotated ==
  (pc = "rotated" /\ quiet /\ TargetMissing) =>
    /\ table = table0 /\ tx = EmptyBag
    /\ state.d = [inode |-> IntV(fs[latest].ino), offset |-> 0]

C15_Tailed ==
  (pc = "tailed" /\ quiet /\ TargetMissing) =>
    /\ Matching(fs[latest].data) \subseteq Stored(table)
    /\ Stored(table) \ Stored(table0) \subseteq Matching(fs[latest].data)
    /\ state.d = [inode |-> IntV(fs[latest].ino), offset |-> Len(fs[latest].data)]

C15_Step ==
  (pc \notin Ended /\ quiet /\ TargetMissing /\ pc' # pc) =>
    /\ pc' # "aborted"
    /\ pc' = "done" =>
         stateFile' = Json(Dict([inode |-> IntV(fs[latest].ino),
                                 offset |-> Len(fs[latest].data)]))

C15_MissingTarget == [](C15_Rotated /\ C15_Tailed) /\ [][C15_Step]_vars

\* A pass whose recorded file was removed after a rotation has read lines of
\* the active file.
C15_Witness ==
  /\ ReadAll /\ TargetMissing
  /\ stateFile0.val.d.offset > 0
  /\ Matching(fs[latest].data) # {}
  /\ Matching(fs[latest].data) \subseteq Stored(table) \ Stored(table0)

\* The running pass found no state file.
FirstRun == stateFile0 = Absent

\* The running pass selected the most recently modified match of the glob.
LatestIsNewest == \A q \in glob(fs) : fs[q].mtime <= fs[latest].mtime

\* C16: first run.  In a pass that found no state file, on files that do not
\* change: the file it reads is the most recently modified match of the
\* glob; the rotation block stores nothing and leaves offset 0; the pass
\* then stores the matching lines of that file and no others, and saves that
\* file's inode with the end of the file.
C16_Rotated ==
  (pc = "rotated" /\ quiet /\ FirstRun) =>
    /\ LatestIsNewest
    /\ table = table0 /\ tx = EmptyBag
    /\ state.d = [inode |-> IntV(fs[latest].ino), offset |-> 0]

C16_Tailed ==
  (pc = "tailed" /\ quiet /\ FirstRun) =>
    /\ LatestIsNewest
    /\ Matching(fs[latest].data) \subseteq Stored(table)
    /\ Stored(table) \ Stored(table0) \subseteq Matching(fs[latest].data)
    /\ state.d = [inode |-> IntV(fs[latest].ino), offset |-> Len(fs[latest].data)]

C16_Step ==
  (pc = "saving" /\ pc' = "done" /\ quiet /\ FirstRun) =>
    stateFile' = Json(Dict([inode |-> IntV(fs[latest].ino),
                            offset |-> Len(fs[latest].data)]))

C16_FirstRun == [](C16_Rotated /\ C16_Tailed) /\ [][C16_Step]_vars

\* A first run has read the lines of the newest file while an older file,
\* rotated out, holds lines that are not stored.
C16_Witness ==
  /\ ReadAll /\ FirstRun
  /\ Matching(fs[latest].data) # {}
  /\ \E p \in glob(fs) \ {latest} : Matching(fs[p].data) \ Stored(table) # {}

\* The running pass loaded the inode of the active file, which has no bytes
\* beyond the loaded offset.
NoNewBytes ==
  /\ Usable(stateFile0)
  /\ stateFile0.val.d.inode = IntV(fs[latest].ino)
  /\ stateFile0.val.d.offset >= Len(fs[latest].data)

\* C17: a pass that reads zero new bytes is a no-op.  In a pass on the file
\* the state records, which has no bytes beyond the recorded offset (an empty
\* file at offset 0 is one) and does not change: the table and the state stay
\* what they were when the pass began, the pass does not end before
\* save_state, and it saves the state file it found.
C17_Read ==
  (pc \in {"rotated", "tailed"} /\ quiet /\ NoNewBytes) =>
    /\ table = table0 /\ tx = EmptyBag
    /\ state = stateFile0.val

C17_Step ==
  (pc \notin Ended /\ quiet /\ NoNewBytes /\ pc' # pc) =>
    /\ pc' # "aborted"
    /\ table' = table0
    /\ pc' = "done" => stateFile' = stateFile0

C17_NoNewBytes == []C17_Read /\ [][C17_Step]_vars

\* A pass has run on a file whose lines an earlier pass read and stored:
\* the recorded offset is the end of the file.
C17_Witness ==
  /\ ReadAll /\ NoNewBytes
  /\ stateFile0.val.d.offset = Len(fs[latest].data)
  /\ Matching(fs[latest].data) # {}
  /\ Matching(fs[latest].data) \subseteq Stored(table0)

\* C18: unmatched lines are skipped, not blocking.  When a pass has read the
\* file from the offset it loaded: it reported one event for each line read
\* that is not blank and does not match, and none for any other line; no
\* such line has a row; every matching line it read has a row, also after an
\* unmatched or a blank line; the offset is the end of the file, and that
\* state is what the pass saves, so that the next pass reads none of these
\* lines.
ReadFrom == load_state(stateFile0).d.offset

LinesRead == SplitLines(Unread(latest, ReadFrom))

Skipped(line) == Strip(line) # << >> /\ ~LOG_PATTERN(Strip(line)).ok

C18_Read ==
  ReadAll =>
    /\ Len(logged) = Cardinality({i \in DOMAIN LinesRead : Skipped(LinesRead[i])})
    /\ \A i \in DOMAIN LinesRead :
         Skipped(LinesRead[i]) =>
           /\ Cardinality({k \in DOMAIN logged : logged[k] = Strip(LinesRead[i])}) = 1
           /\ RowsOf(table, Strip(LinesRead[i])) = {}
    /\ Matching(Unread(latest, ReadFrom)) \subseteq Stored(table)
    /\ Stored(table) \ Stored(table0) \subseteq Matching(Unread(latest, ReadFrom))
    /\ state.d.offset = Len(fs[latest].data)

C18_Step ==
  (pc = "saving" /\ pc' = "done" /\ quiet) =>
    /\ Usable(stateFile')
    /\ stateFile'.val.d.offset = Len(fs[latest].data)

C18_UnmatchedSkipped == []C18_Read /\ [][C18_Step]_vars

\* A pass has read an unmatched line or a blank line and, after it, a
\* matching line.
C18_Witness ==
  /\ ReadAll
  /\ \E i, j \in DOMAIN LinesRead :
       /\ i < j
       /\ Skipped(LinesRead[i])
       /\ LOG_PATTERN(Strip(LinesRead[j])).ok
  /\ logged # << >>

\* The running pass loaded the inode of the active file, which is shorter
\* than the loaded offset.
Truncated ==
  /\ Usable(stateFile0)
  /\ stateFile0.val.d.inode = IntV(cur_inode)
  /\ fs[latest].ino = cur_inode
  /\ Len(fs[latest].data) < stateFile0.val.d.offset

\* C19: truncation is not detected.  In a pass on the file the state
\* records, which is shorter than the recorded offset and does not change:
\* no row is stored, the offset stays the recorded one, beyond the end of the
\* file, and the pass saves the inode and the offset it found; so it is with
\* every pass while the file is shorter than the offset.
C19_Read ==
  (pc = "tailed" /\ quiet /\ Truncated) =>
    /\ table = table0 /\ tx = EmptyBag
    /\ state.d.offset = stateFile0.val.d.offset
    /\ state.d.offset > Len(fs[latest].data)
    /\ state.d.inode = stateFile0.val.d.inode

C19_Step ==
  (pc = "saving" /\ pc' = "done" /\ quiet /\ Truncated) =>
    /\ Usable(stateFile')
    /\ stateFile'.val.d.offset = stateFile0.val.d.offset
    /\ stateFile'.val.d.inode = stateFile0.val.d.inode
    /\ table' = table0

C19_TruncationUndetected == []C19_Read /\ [][C19_Step]_vars

\* A pass has run on a file that was truncated and has received a line
\* since: the file is not empty and ends before the recorded offset.
C19_Witness ==
  /\ ReadAll /\ Truncated
  /\ Len(fs[latest].data) > 0
  /\ Lines(fs[latest].data) \cap Stored(table) = {}

\* C20: identity and offset stay paired.  The state file a pass saved holds
\* the inode of the file the pass took it from together with an offset the
\* pass reached in that same file, also when the active path is renamed and
\* created anew between the stat of the path and its opening.
C20_Paired ==
  (Usable(stateFile) /\ savedFile # NotSaved) => savedFile.read = savedFile.stat

=============================================================================
